---- MODULE Spec2Model ----
(***************************************************************************)
(* Food-journal application: the persistence gateway (initDatabase,        *)
(* executeSql), the application shell (App), the authentication screen     *)
(* (AuthScreen.handleAuth) and the journal screen (HomeScreen), as a       *)
(* state machine.  Every await of the JavaScript source is a point where   *)
(* other handlers may run; a storage call completes or throws in one step. *)
(***************************************************************************)
EXTENDS Integers, Sequences, FiniteSets, TLC

\* ------------------------------------------------------------------ bounds
\* connections one process may open before the model stops opening more
MaxOpens == 3
\* largest identifier AUTOINCREMENT hands out to a journals row
MaxJournalId == 2

\* ------------------------------------------------------------------ text
\* Strings are sequences of one-character strings.
IsSpace(c) == c = " "

RECURSIVE TrimLeft(_)
TrimLeft(s) == IF s # <<>> /\ IsSpace(Head(s)) THEN TrimLeft(Tail(s)) ELSE s

RECURSIVE TrimRight(_)
TrimRight(s) ==
  IF s # <<>> /\ IsSpace(s[Len(s)]) THEN TrimRight(SubSeq(s, 1, Len(s) - 1)) ELSE s

\* String.prototype.trim
Trim(s) == TrimRight(TrimLeft(s))

\* [^\s@]+
IsWord(s) == Len(s) >= 1 /\ \A i \in 1..Len(s) : ~IsSpace(s[i]) /\ s[i] # "@"

\* /^[^\s@]+@[^\s@]+\.[^\s@]+$/.test(s)
EmailPattern(s) ==
  \E a \in 1..Len(s) : \E d \in 1..Len(s) :
    /\ s[a] = "@"
    /\ s[d] = "."
    /\ a < d
    /\ IsWord(SubSeq(s, 1, a - 1))
    /\ IsWord(SubSeq(s, a + 1, d - 1))
    /\ IsWord(SubSeq(s, d + 1, Len(s)))

\* password.length < 6
MinPasswordLength == 6

\* validateInputs: the alert it raises, or "ok"
validateInputs(e, p) ==
  IF Trim(e) = <<>> \/ Trim(p) = <<>> THEN "Please fill in all fields"
  ELSE IF ~EmailPattern(e) THEN "Please enter a valid email address"
  ELSE IF Len(p) < MinPasswordLength THEN "Password must be at least 6 characters"
  ELSE "ok"

\* ------------------------------------------------------------------ inputs
EmailA == <<"a", "@", "b", ".", "c">>
EmailD == <<"d", "@", "b", ".", "c">>
Emails == {EmailA, EmailD, <<"a", "b">>, <<>>}
Secret == <<"s", "e", "c", "r", "e", "t">>
Other == <<"o", "t", "h", "e", "r", "1">>
Passwords == {Secret, Other, <<"a", "b", "c">>, <<" ", " ", " ", " ", " ", " ">>}

NoImage == "null"
Images == {"img1"}
\* a blank description, and one that trim shortens
Descriptions == {<<" ">>, <<"b", " ">>}
categories == <<"All", "Breakfast", "Lunch", "Dinner", "Snacks">>
\* readings of the device clock
Clock == {1, 2}

SchemaTables == {"users", "journals"}

AppTask == <<"app", 0>>
AuthTask == <<"auth", 0>>
AuthTasks == {AuthTask, <<"auth", 1>>}
HomeTasks == {<<"home", 1>>, <<"home", 2>>}
Clients == {<<"client", 1>>, <<"client", 2>>}
TaskIds == {AppTask} \cup AuthTasks \cup HomeTasks \cup Clients

\* ------------------------------------------------------------------ state
VARIABLES
  db,             \* database.js: the connection handle (0: undefined)
  isInitialized,  \* database.js: the initialization flag
  openCount,      \* connections this process has opened
  tables,         \* tables of FoodJournal.db
  usersTable,     \* rows of users
  journalsTable,  \* rows of journals
  nextUserId,     \* AUTOINCREMENT of users
  nextJournalId,  \* AUTOINCREMENT of journals
  dbInitialized,  \* App state
  error,          \* App state
  currentScreen,  \* top of the navigation stack
  routeUserId,    \* route.params.userId of Home (0: none)
  email, password, isLogin, authLoading,                       \* AuthScreen state
  image, description, journals, editingId, category, homeLoading, \* HomeScreen state
  confirmId,      \* target of the open 'Confirm Delete' prompt (0: none)
  lastAlert,      \* the open alert ("none": none)
  tasks           \* the async calls in flight

gatewayVars == <<db, isInitialized, openCount, tables>>
storeVars == <<usersTable, journalsTable, nextUserId, nextJournalId>>
appVars == <<dbInitialized, error>>
navVars == <<currentScreen, routeUserId>>
authVars == <<email, password, isLogin, authLoading>>
homeVars == <<image, description, journals, editingId, category, homeLoading, confirmId>>
vars == <<gatewayVars, storeVars, appVars, navVars, authVars, homeVars, lastAlert, tasks>>

IdleTask ==
  [pc |-> "idle", g |-> "none", call |-> "none", lazy |-> FALSE,
   email |-> <<>>, password |-> <<>>,
   image |-> NoImage, description |-> <<>>, category |-> "All", id |-> 0, date |-> 0]

Init ==
  /\ db = 0 /\ isInitialized = FALSE /\ openCount = 0 /\ tables = {}
  /\ usersTable = {} /\ journalsTable = {} /\ nextUserId = 1 /\ nextJournalId = 1
  /\ dbInitialized = FALSE /\ error = FALSE
  /\ currentScreen = "Auth" /\ routeUserId = 0
  /\ email = <<>> /\ password = <<>> /\ isLogin = TRUE /\ authLoading = FALSE
  /\ image = NoImage /\ description = <<>> /\ journals = <<>> /\ editingId = 0
  /\ category = "All" /\ homeLoading = TRUE /\ confirmId = 0
  /\ lastAlert = "none"
  /\ tasks = [t \in TaskIds |-> IdleTask]

\* ------------------------------------------------------------------ gateway
\* initDatabase up to its first await: returns at once when the flag is set
InitDatabaseEntry(flag) == IF flag THEN "ready" ELSE "open"

\* executeSql that runs the statement without looking at the flag
ExecuteSqlEntry_NoInit(flag) == "run"

\* executeSql up to its first await: initializes first when the flag is not set
ExecuteSqlEntry(flag) == IF flag THEN "run" ELSE InitDatabaseEntry(flag)

\* a call of initDatabase() / executeSql() by task t, in the caller's step
CallInit(t, pc) ==
  [IdleTask EXCEPT !.pc = pc, !.call = "init", !.g = InitDatabaseEntry(isInitialized)]

CallExecute(task, pc) ==
  [task EXCEPT !.pc = pc, !.call = "exec", !.g = ExecuteSqlEntry(isInitialized),
               !.lazy = (ExecuteSqlEntry(isInitialized) # "run")]

\* where a call continues once initDatabase has set the flag
AfterInit(call) == IF call = "exec" THEN "run" ELSE "ready"

\* db = await SQLite.openDatabaseAsync('FoodJournal.db')
OpenDatabase(t) ==
  /\ tasks[t].g = "open"
  /\ openCount < MaxOpens
  /\ openCount' = openCount + 1
  /\ db' = openCount + 1
  /\ tasks' = [tasks EXCEPT ![t].g = "pragma"]
  /\ UNCHANGED <<isInitialized, tables, storeVars, appVars, navVars, authVars, homeVars, lastAlert>>

\* await db.execAsync('PRAGMA journal_mode = WAL')
EnableWal(t) ==
  /\ tasks[t].g = "pragma"
  /\ tasks' = [tasks EXCEPT ![t].g = "schema"]
  /\ UNCHANGED <<gatewayVars, storeVars, appVars, navVars, authVars, homeVars, lastAlert>>

\* the CREATE TABLE IF NOT EXISTS transaction, then isInitialized = true
CreateTables(t) ==
  /\ tasks[t].g = "schema"
  /\ tables' = tables \cup SchemaTables
  /\ isInitialized' = TRUE
  /\ tasks' = [tasks EXCEPT ![t].g = AfterInit(tasks[t].call)]
  /\ UNCHANGED <<db, openCount, storeVars, appVars, navVars, authVars, homeVars, lastAlert>>

\* any await of initDatabase rejects: logged and rethrown, the transaction rolled back
InitDatabaseThrows(t) ==
  /\ tasks[t].g \in {"open", "pragma", "schema"}
  /\ tasks' = [tasks EXCEPT ![t].g = "failed"]
  /\ UNCHANGED <<gatewayVars, storeVars, appVars, navVars, authVars, homeVars, lastAlert>>

\* the statement of a call at g = "run" can be executed on table tbl
CanQuery(t, tbl) == tasks[t].g = "run" /\ db # 0 /\ tbl \in tables

\* the awaited executeSql of task t rejects (initialization or the statement failed)
Throws(t) == tasks[t].g \in {"failed", "run"}

\* ------------------------------------------------------------------ gateway clients
\* some module calls initDatabase()
ClientInitDatabase(c) ==
  /\ tasks[c].pc = "idle"
  /\ tasks' = [tasks EXCEPT ![c] = CallInit(c, "init")]
  /\ UNCHANGED <<gatewayVars, storeVars, appVars, navVars, authVars, homeVars, lastAlert>>

\* some module calls executeSql('SELECT ...')
ClientExecuteSql(c) ==
  /\ tasks[c].pc = "idle"
  /\ tasks' = [tasks EXCEPT ![c] = CallExecute(IdleTask, "query")]
  /\ UNCHANGED <<gatewayVars, storeVars, appVars, navVars, authVars, homeVars, lastAlert>>

\* the client's initDatabase() promise settles
ClientInitSettled(c) ==
  /\ tasks[c].pc = "init"
  /\ tasks[c].g \in {"ready", "failed"}
  /\ tasks' = [tasks EXCEPT ![c] = IdleTask]
  /\ UNCHANGED <<gatewayVars, storeVars, appVars, navVars, authVars, homeVars, lastAlert>>

\* the client's query returns its rows
ClientQueryDone(c) ==
  /\ tasks[c].pc = "query"
  /\ CanQuery(c, "users")
  /\ tasks' = [tasks EXCEPT ![c] = IdleTask]
  /\ UNCHANGED <<gatewayVars, storeVars, appVars, navVars, authVars, homeVars, lastAlert>>

\* the client's executeSql rejects
ClientQueryThrows(c) ==
  /\ tasks[c].pc = "query"
  /\ Throws(c)
  /\ tasks' = [tasks EXCEPT ![c] = IdleTask]
  /\ UNCHANGED <<gatewayVars, storeVars, appVars, navVars, authVars, homeVars, lastAlert>>

NextGateway ==
  \/ \E c \in Clients : ClientInitDatabase(c)
  \/ \E c \in Clients : ClientExecuteSql(c)
  \/ \E c \in Clients : ClientInitSettled(c)
  \/ \E c \in Clients : ClientQueryDone(c)
  \/ \E c \in Clients : ClientQueryThrows(c)
  \/ \E t \in TaskIds : OpenDatabase(t)
  \/ \E t \in TaskIds : EnableWal(t)
  \/ \E t \in TaskIds : CreateTables(t)
  \/ \E t \in TaskIds : InitDatabaseThrows(t)

SpecGateway == Init /\ [][NextGateway]_vars

\* ------------------------------------------------------------------ application shell
\* what App renders: the error view, the progress view, or the navigator's screen
AppRender ==
  IF error THEN "error" ELSE IF ~dbInitialized THEN "initializing" ELSE currentScreen

\* useEffect of App: initialize() calls initDatabase()
AppMount ==
  /\ ~dbInitialized /\ ~error
  /\ tasks[AppTask].pc = "idle"
  /\ tasks' = [tasks EXCEPT ![AppTask] = CallInit(AppTask, "initialize")]
  /\ UNCHANGED <<gatewayVars, storeVars, appVars, navVars, authVars, homeVars, lastAlert>>

\* await initDatabase() returned: setDbInitialized(true)
AppInitResolved ==
  /\ tasks[AppTask].pc = "initialize"
  /\ tasks[AppTask].g = "ready"
  /\ dbInitialized' = TRUE
  /\ tasks' = [tasks EXCEPT ![AppTask] = IdleTask]
  /\ UNCHANGED <<gatewayVars, storeVars, error, navVars, authVars, homeVars, lastAlert>>

\* a catch block that lets the shell go on to the navigator
AppInitRejected_Continue ==
  /\ tasks[AppTask].pc = "initialize"
  /\ tasks[AppTask].g = "failed"
  /\ dbInitialized' = TRUE
  /\ tasks' = [tasks EXCEPT ![AppTask] = IdleTask]
  /\ UNCHANGED <<gatewayVars, storeVars, error, navVars, authVars, homeVars, lastAlert>>

\* await initDatabase() threw: setError(err)
AppInitRejected ==
  /\ tasks[AppTask].pc = "initialize"
  /\ tasks[AppTask].g = "failed"
  /\ error' = TRUE
  /\ tasks' = [tasks EXCEPT ![AppTask] = IdleTask]
  /\ UNCHANGED <<gatewayVars, storeVars, dbInitialized, navVars, authVars, homeVars, lastAlert>>

\* the process ends and the application is launched again: the database file stays
Restart ==
  /\ db' = 0 /\ isInitialized' = FALSE /\ openCount' = 0
  /\ dbInitialized' = FALSE /\ error' = FALSE
  /\ currentScreen' = "Auth" /\ routeUserId' = 0
  /\ email' = <<>> /\ password' = <<>> /\ isLogin' = TRUE /\ authLoading' = FALSE
  /\ image' = NoImage /\ description' = <<>> /\ journals' = <<>> /\ editingId' = 0
  /\ category' = "All" /\ homeLoading' = TRUE /\ confirmId' = 0
  /\ lastAlert' = "none"
  /\ tasks' = [t \in TaskIds |-> IdleTask]
  /\ UNCHANGED <<tables, storeVars>>

\* ------------------------------------------------------------------ SQL of the flows
\* the login SELECT without its password condition
SelectUserByCredentials_EmailOnly(e, p) == {u \in usersTable : u.email = e}

\* SELECT id FROM users WHERE email = ? AND password = ?
SelectUserByCredentials(e, p) == {u \in usersTable : u.email = e /\ u.password = p}

\* SELECT id FROM users WHERE email = ?
SelectUserByEmail(e) == {u \in usersTable : u.email = e}

\* a users table whose email column has no UNIQUE constraint
UniqueEmail_Off(e) == TRUE

\* email TEXT UNIQUE
UniqueEmail(e) == \A u \in usersTable : u.email # e

\* INSERT INTO users (email, password) VALUES (?, ?)
InsertUser(e, p) == usersTable \cup {[id |-> nextUserId, email |-> e, password |-> p]}

\* ------------------------------------------------------------------ authentication screen
\* navigation.navigate('Home', { userId }): HomeScreen mounts and its effect starts
Navigate(id) ==
  /\ currentScreen' = "Home"
  /\ routeUserId' = id
  /\ image' = NoImage /\ description' = <<>> /\ journals' = <<>> /\ editingId' = 0
  /\ category' = "All" /\ homeLoading' = TRUE /\ confirmId' = 0

HomeTask1 == <<"home", 1>>

\* the authentication screen accepts input: it is shown and no alert is open
AuthInteractive == AppRender = "Auth" /\ lastAlert = "none"

\* the user closes the open alert
DismissAlert ==
  /\ lastAlert # "none"
  /\ lastAlert' = "none"
  /\ UNCHANGED <<gatewayVars, storeVars, appVars, navVars, authVars, homeVars, tasks>>

\* onChangeText of the email field
SetEmail(E) ==
  /\ AuthInteractive
  /\ \E e \in E : email' = e
  /\ UNCHANGED <<gatewayVars, storeVars, appVars, navVars, password, isLogin, authLoading,
                 homeVars, lastAlert, tasks>>

\* onChangeText of the password field
SetPassword(P) ==
  /\ AuthInteractive
  /\ \E p \in P : password' = p
  /\ UNCHANGED <<gatewayVars, storeVars, appVars, navVars, email, isLogin, authLoading,
                 homeVars, lastAlert, tasks>>

\* the switch button: setIsLogin(!isLogin)
SwitchMode ==
  /\ AuthInteractive
  /\ isLogin' = ~isLogin
  /\ UNCHANGED <<gatewayVars, storeVars, appVars, navVars, email, password, authLoading,
                 homeVars, lastAlert, tasks>>

\* handleAuth with inputs that fail validateInputs
HandleAuthInvalid ==
  /\ AuthInteractive /\ ~authLoading
  /\ validateInputs(email, password) # "ok"
  /\ lastAlert' = validateInputs(email, password)
  /\ UNCHANGED <<gatewayVars, storeVars, appVars, navVars, authVars, homeVars, tasks>>

\* handleAuth() called with valid inputs, up to its first await: setIsLoading(true) and
\* the first executeSql; the function does not read isLoading
HandleAuthCall(a) ==
  /\ AuthInteractive
  /\ tasks[a].pc = "idle"
  /\ validateInputs(email, password) = "ok"
  /\ authLoading' = TRUE
  /\ tasks' = [tasks EXCEPT ![a] =
       CallExecute([IdleTask EXCEPT !.email = email, !.password = password],
                   IF isLogin THEN "login" ELSE "check")]
  /\ UNCHANGED <<gatewayVars, storeVars, appVars, navVars, email, password, isLogin,
                 homeVars, lastAlert>>

\* a press of the Login / Register button, rendered only while isLoading is false
HandleAuth(a) == ~authLoading /\ HandleAuthCall(a)

\* LOGIN: the SELECT returned; navigate with users[0].id or alert
LoginSelected(a) ==
  /\ tasks[a].pc = "login"
  /\ CanQuery(a, "users")
  /\ LET users == SelectUserByCredentials(tasks[a].email, tasks[a].password)
     IN IF users # {}
        THEN /\ \E u \in users : Navigate(u.id)
             /\ tasks' = [tasks EXCEPT ![a] = IdleTask,
                                       ![HomeTask1] = [IdleTask EXCEPT !.pc = "camera"]]
             /\ UNCHANGED lastAlert
        ELSE /\ lastAlert' = "Invalid email or password"
             /\ tasks' = [tasks EXCEPT ![a] = IdleTask]
             /\ UNCHANGED <<navVars, homeVars>>
  /\ authLoading' = FALSE
  /\ UNCHANGED <<gatewayVars, storeVars, appVars, email, password, isLogin>>

\* a registration that goes on to the INSERT whatever the existence SELECT returned
RegisterChecked_NoCheck(a) ==
  /\ tasks[a].pc = "check"
  /\ CanQuery(a, "users")
  /\ tasks' = [tasks EXCEPT ![a] = CallExecute(tasks[a], "insert")]
  /\ UNCHANGED <<gatewayVars, storeVars, appVars, navVars, authVars, homeVars, lastAlert>>

\* REGISTER: the existence SELECT returned; alert and return, or issue the INSERT
RegisterChecked(a) ==
  /\ tasks[a].pc = "check"
  /\ CanQuery(a, "users")
  /\ IF SelectUserByEmail(tasks[a].email) # {}
     THEN /\ lastAlert' = "Email already exists"
          /\ authLoading' = FALSE
          /\ tasks' = [tasks EXCEPT ![a] = IdleTask]
     ELSE /\ tasks' = [tasks EXCEPT ![a] = CallExecute(tasks[a], "insert")]
          /\ UNCHANGED <<lastAlert, authLoading>>
  /\ UNCHANGED <<gatewayVars, storeVars, appVars, navVars, email, password, isLogin, homeVars>>

\* REGISTER: the INSERT ran; issue the SELECT by email
RegisterInserted(a) ==
  /\ tasks[a].pc = "insert"
  /\ CanQuery(a, "users")
  /\ UniqueEmail(tasks[a].email)
  /\ usersTable' = InsertUser(tasks[a].email, tasks[a].password)
  /\ nextUserId' = nextUserId + 1
  /\ tasks' = [tasks EXCEPT ![a] = CallExecute(tasks[a], "requery")]
  /\ UNCHANGED <<gatewayVars, journalsTable, nextJournalId, appVars, navVars, authVars,
                 homeVars, lastAlert>>

\* a registration whose last SELECT has no WHERE clause: newUser[0] is any users row
RegisterRequeried_AnyUser(a) ==
  /\ tasks[a].pc = "requery"
  /\ CanQuery(a, "users")
  /\ \E u \in usersTable : Navigate(u.id)
  /\ authLoading' = FALSE
  /\ tasks' = [tasks EXCEPT ![a] = IdleTask,
                            ![HomeTask1] = [IdleTask EXCEPT !.pc = "camera"]]
  /\ UNCHANGED <<gatewayVars, storeVars, appVars, email, password, isLogin, lastAlert>>

\* REGISTER: the SELECT by email returned; navigate with newUser[0].id
RegisterRequeried(a) ==
  /\ tasks[a].pc = "requery"
  /\ CanQuery(a, "users")
  /\ \E u \in SelectUserByEmail(tasks[a].email) : Navigate(u.id)
  /\ authLoading' = FALSE
  /\ tasks' = [tasks EXCEPT ![a] = IdleTask,
                            ![HomeTask1] = [IdleTask EXCEPT !.pc = "camera"]]
  /\ UNCHANGED <<gatewayVars, storeVars, appVars, email, password, isLogin, lastAlert>>

\* a handleAuth whose catch block is not followed by finally
HandleAuthCaught_NoFinally(a) ==
  /\ tasks[a].pc \in {"login", "check", "insert", "requery"}
  /\ Throws(a)
  /\ lastAlert' = "An unexpected error occurred. Please try again."
  /\ tasks' = [tasks EXCEPT ![a] = IdleTask]
  /\ UNCHANGED <<gatewayVars, storeVars, appVars, navVars, authVars, homeVars>>

\* an awaited executeSql of handleAuth threw: the catch block, then finally
HandleAuthCaught(a) ==
  /\ tasks[a].pc \in {"login", "check", "insert", "requery"}
  /\ Throws(a)
  /\ lastAlert' = "An unexpected error occurred. Please try again."
  /\ authLoading' = FALSE
  /\ tasks' = [tasks EXCEPT ![a] = IdleTask]
  /\ UNCHANGED <<gatewayVars, storeVars, appVars, navVars, email, password, isLogin, homeVars>>


\* ------------------------------------------------------------------ SQL of the journal screen
\* the orderings of a set of rows that ORDER BY date DESC may return
OrderByDateDesc(rows) ==
  {s \in [1..Cardinality(rows) -> rows] :
     /\ \A i, j \in 1..Cardinality(rows) : i # j => s[i] # s[j]
     /\ \A i, j \in 1..Cardinality(rows) : i < j => s[i].date >= s[j].date}

\* the SELECT of the list without its WHERE clause
SelectJournals_AllUsers(userId) == OrderByDateDesc(journalsTable)

\* SELECT * FROM journals WHERE userId = ? ORDER BY date DESC
SelectJournals(userId) == OrderByDateDesc({r \in journalsTable : r.userId = userId})

\* UPDATE journals SET image = ?, description = ?, category = ? WHERE id = ?
UpdateJournal(img, desc, cat, id) ==
  {IF r.id = id THEN [r EXCEPT !.image = img, !.description = desc, !.category = cat]
   ELSE r : r \in journalsTable}

\* INSERT INTO journals (userId, image, description, category, date) VALUES (?, ?, ?, ?, ?)
InsertJournal(userId, img, desc, cat, date) ==
  journalsTable \cup {[id |-> nextJournalId, userId |-> userId, image |-> img,
                       description |-> desc, category |-> cat, date |-> date]}

\* a DELETE that also removes the rows inserted before the targeted one
DeleteJournalRow_UpTo(id) == {r \in journalsTable : r.id > id}

\* DELETE FROM journals WHERE id = ?
DeleteJournalRow(id) == {r \in journalsTable : r.id # id}

\* ------------------------------------------------------------------ journal screen
\* the list HomeScreen renders
filteredJournals ==
  IF category = "All" THEN journals
  ELSE SelectSeq(journals, LAMBDA j : j.category = category)

\* the form and the list accept input: the screen is loaded, no alert or prompt is open
HomeInteractive ==
  AppRender = "Home" /\ ~homeLoading /\ confirmId = 0 /\ lastAlert = "none"

\* the guard without the trim of the description
FormIncomplete_NoTrim == image = NoImage \/ description = <<>>

\* saveJournal's guard: !image || !description.trim()
FormIncomplete == image = NoImage \/ Trim(description) = <<>>

\* INSERT statements issued and not yet run
PendingInserts == Cardinality({h \in HomeTasks : tasks[h].pc = "insert"})

\* a permission request of HomeScreen's effect resolves
PermissionGranted(h) ==
  /\ tasks[h].pc \in {"camera", "library"}
  /\ tasks' = [tasks EXCEPT ![h] =
       IF tasks[h].pc = "camera" THEN [IdleTask EXCEPT !.pc = "library"]
       ELSE CallExecute(IdleTask, "initLoad")]
  /\ UNCHANGED <<gatewayVars, storeVars, appVars, navVars, authVars, homeVars, lastAlert>>

\* a permission request rejects: the effect's catch, then finally
PermissionRejected(h) ==
  /\ tasks[h].pc \in {"camera", "library"}
  /\ lastAlert' = "Failed to initialize screen."
  /\ homeLoading' = FALSE
  /\ tasks' = [tasks EXCEPT ![h] = IdleTask]
  /\ UNCHANGED <<gatewayVars, storeVars, appVars, navVars, authVars,
                 image, description, journals, editingId, category, confirmId>>

\* a resetForm() after a save that leaves the category as it is
AfterLoad_KeepCategory(pc, alert) ==
  /\ homeLoading' = (IF pc = "initLoad" THEN FALSE ELSE homeLoading)
  /\ image' = (IF pc = "saveLoad" THEN NoImage ELSE image)
  /\ description' = (IF pc = "saveLoad" THEN <<>> ELSE description)
  /\ editingId' = (IF pc = "saveLoad" THEN 0 ELSE editingId)
  /\ category' = category
  /\ lastAlert' = (IF pc = "deleteLoad" THEN "Deleted" ELSE alert)

\* what follows the awaited loadJournals(): finally of the effect, resetForm() of
\* saveJournal, Alert 'Deleted' of the delete handler
AfterLoad(pc, alert) ==
  /\ homeLoading' = (IF pc = "initLoad" THEN FALSE ELSE homeLoading)
  /\ image' = (IF pc = "saveLoad" THEN NoImage ELSE image)
  /\ description' = (IF pc = "saveLoad" THEN <<>> ELSE description)
  /\ editingId' = (IF pc = "saveLoad" THEN 0 ELSE editingId)
  /\ category' = (IF pc = "saveLoad" THEN "All" ELSE category)
  /\ lastAlert' = (IF pc = "deleteLoad" THEN "Deleted" ELSE alert)

\* a loadJournals that drops the rows its SELECT returned
LoadJournals_Stale(h) ==
  /\ tasks[h].pc \in {"initLoad", "saveLoad", "deleteLoad"}
  /\ CanQuery(h, "journals")
  /\ journals' = journals
  /\ AfterLoad(tasks[h].pc, lastAlert)
  /\ tasks' = [tasks EXCEPT ![h] = IdleTask]
  /\ UNCHANGED <<gatewayVars, storeVars, appVars, navVars, authVars, confirmId>>

\* loadJournals: the SELECT returned, setJournals(result)
LoadJournals(h) ==
  /\ tasks[h].pc \in {"initLoad", "saveLoad", "deleteLoad"}
  /\ CanQuery(h, "journals")
  /\ \E result \in SelectJournals(routeUserId) : journals' = result
  /\ AfterLoad(tasks[h].pc, lastAlert)
  /\ tasks' = [tasks EXCEPT ![h] = IdleTask]
  /\ UNCHANGED <<gatewayVars, storeVars, appVars, navVars, authVars, confirmId>>

\* loadJournals: the SELECT threw; caught inside loadJournals, the caller goes on
LoadJournalsCaught(h) ==
  /\ tasks[h].pc \in {"initLoad", "saveLoad", "deleteLoad"}
  /\ Throws(h)
  /\ AfterLoad(tasks[h].pc, "Failed to load journals")
  /\ tasks' = [tasks EXCEPT ![h] = IdleTask]
  /\ UNCHANGED <<gatewayVars, storeVars, appVars, navVars, authVars, journals, confirmId>>

\* takePicture / pickImage: the picker returned an asset
SetImage(I) ==
  /\ HomeInteractive
  /\ \E i \in I : image' = i
  /\ UNCHANGED <<gatewayVars, storeVars, appVars, navVars, authVars,
                 description, journals, editingId, category, homeLoading, confirmId,
                 lastAlert, tasks>>

\* onChangeText of the description field
SetDescription(D) ==
  /\ HomeInteractive
  /\ \E d \in D : description' = d
  /\ UNCHANGED <<gatewayVars, storeVars, appVars, navVars, authVars,
                 image, journals, editingId, category, homeLoading, confirmId,
                 lastAlert, tasks>>

\* onValueChange of the category picker and of the filter picker
SetCategory(C) ==
  /\ HomeInteractive
  /\ \E c \in C : category' = c
  /\ UNCHANGED <<gatewayVars, storeVars, appVars, navVars, authVars,
                 image, description, journals, editingId, homeLoading, confirmId,
                 lastAlert, tasks>>

\* Edit on a listed entry
EditEntry ==
  /\ HomeInteractive
  /\ \E k \in 1..Len(filteredJournals) :
       LET item == filteredJournals[k]
       IN /\ editingId' = item.id
          /\ description' = item.description
          /\ image' = item.image
          /\ category' = item.category
  /\ UNCHANGED <<gatewayVars, storeVars, appVars, navVars, authVars,
                 journals, homeLoading, confirmId, lastAlert, tasks>>

\* resetForm by the Cancel button, shown while editingId is set
resetForm ==
  /\ HomeInteractive
  /\ editingId # 0
  /\ image' = NoImage /\ description' = <<>> /\ editingId' = 0 /\ category' = "All"
  /\ UNCHANGED <<gatewayVars, storeVars, appVars, navVars, authVars,
                 journals, homeLoading, confirmId, lastAlert, tasks>>

\* saveJournal with no image or a blank description
SaveJournalInvalid ==
  /\ HomeInteractive
  /\ FormIncomplete
  /\ lastAlert' = "Please add both an image and description"
  /\ UNCHANGED <<gatewayVars, storeVars, appVars, navVars, authVars, homeVars, tasks>>

\* saveJournal up to its first await: the UPDATE or the INSERT is issued
saveJournal(h, K) ==
  /\ HomeInteractive
  /\ ~FormIncomplete
  /\ routeUserId # 0
  /\ tasks[h].pc = "idle"
  /\ editingId = 0 => nextJournalId + PendingInserts <= MaxJournalId
  /\ \E now \in K :
       tasks' = [tasks EXCEPT ![h] =
         CallExecute([IdleTask EXCEPT !.image = image, !.description = Trim(description),
                                      !.category = category, !.id = editingId,
                                      !.date = IF editingId # 0 THEN 0 ELSE now],
                     IF editingId # 0 THEN "update" ELSE "insert")]
  /\ UNCHANGED <<gatewayVars, storeVars, appVars, navVars, authVars, homeVars, lastAlert>>

\* saveJournal: the UPDATE or INSERT ran; Alert 'Success', then loadJournals()
SaveWritten(h) ==
  /\ tasks[h].pc \in {"update", "insert"}
  /\ CanQuery(h, "journals")
  /\ LET t == tasks[h]
     IN IF t.pc = "update"
        THEN /\ journalsTable' = UpdateJournal(t.image, t.description, t.category, t.id)
             /\ lastAlert' = "Journal updated successfully"
             /\ UNCHANGED nextJournalId
        ELSE /\ journalsTable' =
                  InsertJournal(routeUserId, t.image, t.description, t.category, t.date)
             /\ nextJournalId' = nextJournalId + 1
             /\ lastAlert' = "Journal saved successfully"
  /\ tasks' = [tasks EXCEPT ![h] = CallExecute(tasks[h], "saveLoad")]
  /\ UNCHANGED <<gatewayVars, usersTable, nextUserId, appVars, navVars, authVars, homeVars>>

\* saveJournal: the UPDATE or INSERT threw
SaveCaught(h) ==
  /\ tasks[h].pc \in {"update", "insert"}
  /\ Throws(h)
  /\ lastAlert' = "An unexpected error occurred"
  /\ tasks' = [tasks EXCEPT ![h] = IdleTask]
  /\ UNCHANGED <<gatewayVars, storeVars, appVars, navVars, authVars, homeVars>>

\* deleteJournal(id): the 'Confirm Delete' prompt opens
deleteJournal ==
  /\ HomeInteractive
  /\ \E k \in 1..Len(filteredJournals) : confirmId' = filteredJournals[k].id
  /\ UNCHANGED <<gatewayVars, storeVars, appVars, navVars, authVars,
                 image, description, journals, editingId, category, homeLoading,
                 lastAlert, tasks>>

\* 'Cancel' in the prompt
CancelDelete ==
  /\ AppRender = "Home" /\ confirmId # 0
  /\ confirmId' = 0
  /\ UNCHANGED <<gatewayVars, storeVars, appVars, navVars, authVars,
                 image, description, journals, editingId, category, homeLoading,
                 lastAlert, tasks>>

\* 'Delete' in the prompt: onPress issues the DELETE
ConfirmDelete(h) ==
  /\ AppRender = "Home" /\ confirmId # 0
  /\ tasks[h].pc = "idle"
  /\ confirmId' = 0
  /\ tasks' = [tasks EXCEPT ![h] = CallExecute([IdleTask EXCEPT !.id = confirmId], "delete")]
  /\ UNCHANGED <<gatewayVars, storeVars, appVars, navVars, authVars,
                 image, description, journals, editingId, category, homeLoading, lastAlert>>

\* the DELETE ran; loadJournals()
DeleteDone(h) ==
  /\ tasks[h].pc = "delete"
  /\ CanQuery(h, "journals")
  /\ journalsTable' = DeleteJournalRow(tasks[h].id)
  /\ tasks' = [tasks EXCEPT ![h] = CallExecute(tasks[h], "deleteLoad")]
  /\ UNCHANGED <<gatewayVars, usersTable, nextUserId, nextJournalId, appVars, navVars,
                 authVars, homeVars, lastAlert>>

\* the DELETE threw
DeleteCaught(h) ==
  /\ tasks[h].pc = "delete"
  /\ Throws(h)
  /\ lastAlert' = "Could not delete journal"
  /\ tasks' = [tasks EXCEPT ![h] = IdleTask]
  /\ UNCHANGED <<gatewayVars, storeVars, appVars, navVars, authVars, homeVars>>

\* the steps of the gateway, the shell and the authentication screen in which no storage
\* call fails, handleAuth running in the slots A, the fields taking their values in E and P
NextShell(A, E, P) ==
  \/ AppMount
  \/ AppInitResolved
  \/ DismissAlert
  \/ \E t \in TaskIds : OpenDatabase(t)
  \/ \E t \in TaskIds : EnableWal(t)
  \/ \E t \in TaskIds : CreateTables(t)
  \/ SetEmail(E)
  \/ SetPassword(P)
  \/ SwitchMode
  \/ HandleAuthInvalid
  \/ \E a \in A : HandleAuth(a)
  \/ \E a \in A : LoginSelected(a)
  \/ \E a \in A : RegisterChecked(a)
  \/ \E a \in A : RegisterInserted(a)
  \/ \E a \in A : RegisterRequeried(a)

\* their steps in which a storage call fails
NextShellFailure(A) ==
  \/ \E t \in TaskIds : InitDatabaseThrows(t)
  \/ AppInitRejected
  \/ \E a \in A : HandleAuthCaught(a)

\* the steps of the journal screen in which no call fails, its handlers running in the
\* slots H, the form taking its values in I, D and C and the clock reading a value of K
NextJournal(H, I, D, C, K) ==
  \/ \E h \in H : PermissionGranted(h)
  \/ \E h \in H : LoadJournals(h)
  \/ SetImage(I)
  \/ SetDescription(D)
  \/ SetCategory(C)
  \/ EditEntry
  \/ resetForm
  \/ SaveJournalInvalid
  \/ \E h \in H : saveJournal(h, K)
  \/ \E h \in H : SaveWritten(h)
  \/ deleteJournal
  \/ CancelDelete
  \/ \E h \in H : ConfirmDelete(h)
  \/ \E h \in H : DeleteDone(h)

\* its steps in which a permission request or a storage call fails
NextJournalFailure(H) ==
  \/ \E h \in H : PermissionRejected(h)
  \/ \E h \in H : LoadJournalsCaught(h)
  \/ \E h \in H : SaveCaught(h)
  \/ \E h \in H : DeleteCaught(h)

\* registration and login, over launches of the application
Next ==
  \/ NextShell({AuthTask}, Emails, Passwords)
  \/ NextShellFailure({AuthTask})
  \/ Restart

Spec == Init /\ [][Next]_vars

\* one user keeping a journal
NextHome ==
  \/ NextShell({AuthTask}, {EmailA}, {Secret})
  \/ NextShellFailure({AuthTask})
  \/ NextJournal({HomeTask1}, Images, Descriptions, {categories[1]}, {1})
  \/ NextJournalFailure({HomeTask1})

SpecHome == Init /\ [][NextHome]_vars

\* two users keeping journals over launches of the application, storage never failing
NextList ==
  \/ NextShell({AuthTask}, {EmailA, EmailD}, {Secret})
  \/ Restart
  \/ NextJournal({HomeTask1}, Images, {<<"a">>}, {categories[1], categories[2]}, Clock)

SpecList == Init /\ [][NextList]_vars

\* one user whose presses may come while earlier handlers are still awaiting storage,
\* storage never failing
NextOverlap ==
  \/ NextShell(AuthTasks, {EmailA}, {Secret})
  \/ NextJournal(HomeTasks, Images, {<<"a">>}, {categories[1]}, {1})

SpecOverlap == Init /\ [][NextOverlap]_vars

\* handleAuth called again while earlier calls are awaiting storage
NextRace ==
  \/ NextShell(AuthTasks, {EmailA}, {Secret, Other})
  \/ NextShellFailure(AuthTasks)
  \/ \E a \in AuthTasks : HandleAuthCall(a)

SpecRace == Init /\ [][NextRace]_vars

\* startup, the authentication screen and the effect of the journal screen, every
\* request either returning or failing
NextStart ==
  \/ NextShell({AuthTask}, Emails, Passwords)
  \/ NextShellFailure({AuthTask})
  \/ PermissionGranted(HomeTask1)
  \/ PermissionRejected(HomeTask1)
  \/ LoadJournals(HomeTask1)
  \/ LoadJournalsCaught(HomeTask1)

\* an issued request settles: the promise a handler awaits is resolved or rejected
Settles(t) ==
  \/ OpenDatabase(t) \/ EnableWal(t) \/ CreateTables(t) \/ InitDatabaseThrows(t)
  \/ AppInitResolved \/ AppInitRejected
  \/ LoginSelected(t) \/ RegisterChecked(t) \/ RegisterInserted(t) \/ RegisterRequeried(t)
  \/ HandleAuthCaught(t)
  \/ PermissionGranted(t) \/ PermissionRejected(t)
  \/ LoadJournals(t) \/ LoadJournalsCaught(t)

SpecStart ==
  /\ Init /\ [][NextStart]_vars
  /\ \A t \in {AppTask, AuthTask, HomeTask1} : WF_vars(Settles(t))

\* one user filing entries under two categories
NextFilter ==
  \/ NextShell({AuthTask}, {EmailA}, {Secret})
  \/ NextJournal({HomeTask1}, Images, {<<"a">>}, {categories[1], categories[2]}, {1})
  \/ NextJournalFailure({HomeTask1})

SpecFilter == Init /\ [][NextFilter]_vars

\* ------------------------------------------------------------------ properties
GenericAuthError == "An unexpected error occurred. Please try again."

\* the registration attempt in flight ends in this step, its email being in users
C1_DuplicateAttemptEnds ==
  /\ tasks[AuthTask].pc = "check"
  /\ tasks'[AuthTask].pc # "check"
  /\ \E u \in usersTable : u.email = tasks[AuthTask].email
  /\ ~Restart

C1_NoRowNoNavigation ==
  /\ usersTable' = usersTable
  /\ nextUserId' = nextUserId
  /\ tasks'[AuthTask].pc = "idle"
  /\ currentScreen' = "Auth"
  /\ Cardinality({u \in usersTable' : u.email = tasks[AuthTask].email}) = 1

\* C1 as stated: a registration whose email is already in users always ends with
\* 'Email already exists', issues no INSERT, does not navigate and leaves users as it was.
C1_DuplicateAlwaysReported ==
  [][C1_DuplicateAttemptEnds =>
       (C1_NoRowNoNavigation /\ lastAlert' = "Email already exists")]_vars

\* C1 amended: a registration whose email is already in users issues no INSERT, does not
\* navigate and leaves users as it was (one row for that email); it ends with 'Email
\* already exists' when the existence SELECT returns, and with the generic error alert
\* when that SELECT throws.
C1_DuplicateRejected ==
  [][C1_DuplicateAttemptEnds =>
       /\ C1_NoRowNoNavigation
       /\ lastAlert' = (IF HandleAuthCaught(AuthTask) THEN GenericAuthError
                        ELSE "Email already exists")]_vars

C1_Witness ==
  /\ lastAlert = "Email already exists"
  /\ ~isLogin /\ ~authLoading /\ currentScreen = "Auth"
  /\ Cardinality({u \in usersTable : u.email = email}) = 1

\* the login attempt in flight ends in this step
C2_LoginAttemptEnds ==
  /\ tasks[AuthTask].pc = "login"
  /\ tasks'[AuthTask].pc # "login"
  /\ ~Restart

C2_Matching ==
  {u \in usersTable : u.email = tasks[AuthTask].email
                      /\ u.password = tasks[AuthTask].password}

C2_SuccessIffMatch ==
  IF C2_Matching # {}
  THEN currentScreen' = "Home" /\ routeUserId' \in {u.id : u \in C2_Matching}
  ELSE currentScreen' = "Auth" /\ lastAlert' = "Invalid email or password"

C2_UsersUntouched == usersTable' = usersTable /\ nextUserId' = nextUserId

\* C2 as stated: every login attempt navigates to Home exactly when a users row has the
\* submitted email and password, with that row's id; otherwise it raises 'Invalid email
\* or password'; users is never modified.
C2_LoginAlwaysDecided ==
  [][C2_LoginAttemptEnds => (C2_UsersUntouched /\ C2_SuccessIffMatch)]_vars

\* C2 amended: every login attempt whose SELECT returns navigates to Home exactly when a
\* users row has the submitted email and password, with that row's id, and otherwise
\* raises 'Invalid email or password' (the same for a wrong email and a wrong password);
\* an attempt whose SELECT throws raises the generic error alert and does not navigate;
\* users is never modified.
C2_LoginDecided ==
  [][C2_LoginAttemptEnds =>
       /\ C2_UsersUntouched
       /\ IF HandleAuthCaught(AuthTask)
          THEN currentScreen' = "Auth" /\ lastAlert' = GenericAuthError
          ELSE C2_SuccessIffMatch]_vars

C2_Witness ==
  /\ AppRender = "Home" /\ isLogin
  /\ \E u \in usersTable : u.id = routeUserId /\ u.email = email /\ u.password = password
  /\ \E u \in usersTable : u.id # routeUserId

C3_HomeCarriesUser == AppRender = "Home" => \E u \in usersTable : u.id = routeUserId

C3_InsertsOneRow ==
  (tasks[AuthTask].pc = "insert" /\ tasks'[AuthTask].pc = "requery") =>
    LET row == [id |-> nextUserId, email |-> tasks[AuthTask].email,
                password |-> tasks[AuthTask].password]
    IN /\ \A u \in usersTable : u.id # row.id /\ u.email # row.email
       /\ usersTable' = usersTable \cup {row}

C3_NavigatesWithNewId ==
  (tasks[AuthTask].pc = "requery" /\ currentScreen' = "Home") =>
    /\ usersTable' = usersTable
    /\ routeUserId' = nextUserId - 1
    /\ \E u \in usersTable : /\ u.id = routeUserId'
                             /\ u.email = tasks[AuthTask].email
                             /\ u.password = tasks[AuthTask].password

\* C3: a successful registration inserts exactly one new users row with the submitted
\* email and password, the identifier it navigates with is the id of that row, and Home
\* is never shown with an identifier that is not the id of a users row.
C3_RegistrationHandsOffNewId ==
  []C3_HomeCarriesUser /\ [][C3_InsertsOneRow /\ C3_NavigatesWithNewId]_vars

C3_Witness ==
  /\ AppRender = "Home" /\ ~isLogin
  /\ routeUserId = nextUserId - 1
  /\ Cardinality(usersTable) = 2

ValidationAlert == "Please add both an image and description"

C4_RowsComplete ==
  \A r \in journalsTable : r.image # NoImage /\ Trim(r.description) # <<>>

\* a step taken with no image or a blank description in the form issues no UPDATE and no
\* INSERT, and the step that raises the validation alert changes nothing else
C4_IncompleteFormNotSaved ==
  /\ (image = NoImage \/ Trim(description) = <<>>) =>
       \A h \in HomeTasks :
         tasks'[h].pc \in {"update", "insert"} => tasks'[h] = tasks[h]
  /\ (lastAlert' = ValidationAlert /\ lastAlert # ValidationAlert) =>
       /\ image = NoImage \/ Trim(description) = <<>>
       /\ UNCHANGED <<storeVars, homeVars, tasks>>

\* C4: every journals row has an image and a description that is not blank after
\* trimming; a save with no image or a blank description issues no storage call, raises
\* the validation alert and leaves storage, the list and the form as they were.
C4_OnlyCompleteEntriesSaved == []C4_RowsComplete /\ [][C4_IncompleteFormNotSaved]_vars

C4_Witness ==
  /\ lastAlert = ValidationAlert
  /\ editingId # 0 /\ image # NoImage
  /\ description # <<>> /\ Trim(description) = <<>>
  /\ journalsTable # {}

\* the row a reported update changes, with the submitted values
C5_Updated(t, r) ==
  [id |-> r.id, userId |-> r.userId, date |-> r.date,
   image |-> t.image, description |-> t.description, category |-> t.category]

C5_RowRewritten(h) ==
  (tasks[h].pc = "update" /\ tasks'[h].pc = "saveLoad") =>
    \E r \in journalsTable :
      /\ r.id = tasks[h].id
      /\ journalsTable' = (journalsTable \ {r}) \cup {C5_Updated(tasks[h], r)}

C5_ListShowsUpdate(h) ==
  (tasks[h].pc = "saveLoad" /\ tasks[h].id # 0 /\ tasks'[h].pc = "idle" /\ journals' # journals) =>
    \E k \in 1..Len(journals') :
      /\ journals'[k].id = tasks[h].id
      /\ journals'[k].image = tasks[h].image
      /\ journals'[k].description = tasks[h].description
      /\ journals'[k].category = tasks[h].category

\* C5 as stated: a save with editingId set that reports success gives the journals row
\* with that identifier the submitted image, description and category, leaves its id,
\* owner and date and every other row as they were, and the list fetched afterwards shows
\* the submitted values for that identifier.
C5_UpdateRewritesRow ==
  [][\A h \in HomeTasks : C5_RowRewritten(h) /\ C5_ListShowsUpdate(h)]_vars

C6_OnlyAfterConfirm ==
  /\ \A h \in HomeTasks :
       (tasks'[h].pc = "delete" /\ tasks[h].pc # "delete") =>
         (confirmId # 0 /\ tasks'[h].id = confirmId)
  /\ (confirmId # 0 /\ confirmId' = 0 /\ \A h \in HomeTasks : tasks'[h].pc # "delete")
       => (journalsTable' = journalsTable /\ (journals' = journals \/ Restart))

C6_ListDropsId(h) ==
  (tasks[h].pc = "deleteLoad" /\ tasks'[h].pc = "idle" /\ journals' # journals) =>
    \A k \in 1..Len(journals') : journals'[k].id # tasks[h].id

C6_RemovesOneRow(h) ==
  (tasks[h].pc = "delete" /\ tasks'[h].pc = "deleteLoad") =>
    \E r \in journalsTable :
      /\ r.id = tasks[h].id
      /\ journalsTable' = journalsTable \ {r}
      /\ Cardinality(journalsTable') = Cardinality(journalsTable) - 1

C6_RemovesTargetIfPresent(h) ==
  (tasks[h].pc = "delete" /\ tasks'[h].pc = "deleteLoad") =>
    LET hit == {r \in journalsTable : r.id = tasks[h].id}
    IN /\ Cardinality(hit) <= 1
       /\ journalsTable' = journalsTable \ hit
       /\ Cardinality(journalsTable') = Cardinality(journalsTable) - Cardinality(hit)

\* C6 as stated: a DELETE is issued only after 'Delete' is chosen in the prompt, 'Cancel'
\* leaves storage and the list as they were; a confirmed delete removes exactly the row
\* with the targeted identifier, the row count going down by exactly one, and the list
\* loaded afterwards does not contain that identifier.
C6_DeleteRemovesExactlyOne ==
  [][C6_OnlyAfterConfirm
     /\ \A h \in HomeTasks : C6_RemovesOneRow(h) /\ C6_ListDropsId(h)]_vars

\* C6 amended: a DELETE is issued only after 'Delete' is chosen in the prompt, 'Cancel'
\* leaves storage and the list as they were; a confirmed delete removes the row with the
\* targeted identifier when that row is still in storage, the row count then going down
\* by exactly one, and changes nothing when it is not; no other row changes, and the list
\* loaded afterwards does not contain that identifier.
C6_DeleteRemovesTarget ==
  [][C6_OnlyAfterConfirm
     /\ \A h \in HomeTasks : C6_RemovesTargetIfPresent(h) /\ C6_ListDropsId(h)]_vars

C6_Witness ==
  /\ lastAlert = "Deleted"
  /\ Cardinality(journalsTable) = 1
  /\ Len(journals) = 1
  /\ nextJournalId = 3
  /\ \E r \in journalsTable : r.id = 2

\* the k-th index, in increasing order, of the listed rows whose category is the filter
C7_Kept(k) ==
  LET idx == {m \in 1..Len(journals) : journals[m].category = category}
  IN CHOOSE m \in idx : Cardinality({n \in idx : n < m}) = k - 1

\* C7: the list holds only rows of the session's user, most recent date first; with the
\* filter 'All' the list shown is the fetched list, with another filter it is the fetched
\* rows of that category in their fetched order, a subset of the fetched list.
C7_ListOwnedOrderedFiltered ==
  /\ \A k \in 1..Len(journals) : journals[k].userId = routeUserId
  /\ \A i, j \in 1..Len(journals) : i < j => journals[i].date >= journals[j].date
  /\ category = "All" => filteredJournals = journals
  /\ category # "All" =>
       /\ Len(filteredJournals) =
            Cardinality({m \in 1..Len(journals) : journals[m].category = category})
       /\ \A k \in 1..Len(filteredJournals) : filteredJournals[k] = journals[C7_Kept(k)]
  /\ {filteredJournals[k].id : k \in 1..Len(filteredJournals)}
       \subseteq {journals[k].id : k \in 1..Len(journals)}

C7_Witness ==
  /\ AppRender = "Home" /\ Len(journals) = 2
  /\ journals[1].date > journals[2].date /\ journals[1].id < journals[2].id
  /\ category # "All" /\ Len(filteredJournals) = 1
  /\ filteredJournals[1] = journals[2]

\* C8 as stated: over any calls of initDatabase and executeSql in one process, also
\* calls made while an initDatabase is pending or after one failed, the database is
\* opened at most once.
C8_OpenedAtMostOnce == openCount <= 1

C9_RunsOnlyInitialized ==
  /\ \A t \in TaskIds : tasks[t].g = "run" => isInitialized
  /\ isInitialized => (db # 0 /\ SchemaTables \subseteq tables)

C9_FailurePropagates ==
  \A t \in TaskIds :
    /\ tasks[t].g = "failed" => tasks'[t].g \in {"failed", "none"}
    /\ (tasks[t].g # "failed" /\ tasks'[t].g = "failed") => isInitialized' = isInitialized
    /\ (tasks[t].g = "none" /\ tasks'[t].call = "exec" /\ ~isInitialized)
         => tasks'[t].g = "open"

\* C9: executeSql runs its statement only when the flag is set; with the flag not set it
\* runs initDatabase first; a failed initDatabase ends the call without running the
\* statement and without setting the flag; the flag is set only when the connection is
\* open and users and journals exist.
C9_ExecuteAfterInitialize == []C9_RunsOnlyInitialized /\ [][C9_FailurePropagates]_vars

C9_Witness ==
  \E c \in Clients : tasks[c].call = "exec" /\ tasks[c].lazy /\ tasks[c].g = "run"

C10_Blocked ==
  /\ error => (~dbInitialized /\ AppRender \notin {"Auth", "Home"}
               /\ \A t \in TaskIds : tasks[t].g = "none")
  /\ AppRender \in {"Auth", "Home"} => (isInitialized /\ dbInitialized)

C10_ErrorStays == (error /\ ~Restart) => (error' /\ usersTable' = usersTable)

\* C10: once the startup initDatabase has failed the shell shows the error view for the
\* rest of the process: Auth and Home are not shown and no call reaches the gateway;
\* Auth and Home are shown only after initDatabase has succeeded.
C10_InitFailureBlocks == []C10_Blocked /\ [][C10_ErrorStays]_vars

C10_Witness == error /\ AppRender = "error" /\ usersTable # {}

\* a save or a delete that reported success ends in this step, its re-fetch done
C11_Completes(h) ==
  /\ tasks[h].pc \in {"saveLoad", "deleteLoad"}
  /\ tasks'[h].pc = "idle"
  /\ ~Restart

\* after the step the list is the session user's rows of journals, by date descending
C11_ListIsStorage ==
  journals' \in OrderByDateDesc({r \in journalsTable' : r.userId = routeUserId'})

\* no step sets the list to anything but a fetched result or the empty list of a mount
C11_NeverPatched == journals' # journals => (journals' = <<>> \/ C11_ListIsStorage)

\* C11 as stated: after every create, update or delete that completes and reports
\* success the list equals the session user's rows in storage, ordered by date
\* descending; the list is only ever set from a full re-fetch.
C11_ListEqualsStorageAfterMutation ==
  [][C11_NeverPatched /\ \A h \in HomeTasks : C11_Completes(h) => C11_ListIsStorage]_vars

\* C11 amended: every create, update or delete that reports success is followed by a
\* full re-fetch and the list is only ever set from a fetched result; when the re-fetch
\* returns the list equals the session user's rows in storage, ordered by date
\* descending; when the re-fetch throws the list keeps its earlier contents and the
\* action still completes ('Failed to load journals' after a save, 'Deleted' after a
\* delete).
C11_ListRefetchedAfterMutation ==
  [][/\ C11_NeverPatched
     /\ \A h \in HomeTasks :
          /\ (tasks[h].pc \in {"update", "insert"} /\ tasks'[h].pc \notin {"update", "insert"}
              /\ ~SaveCaught(h) /\ ~Restart) => tasks'[h].pc = "saveLoad"
          /\ (tasks[h].pc = "delete" /\ tasks'[h].pc # "delete"
              /\ ~DeleteCaught(h) /\ ~Restart) => tasks'[h].pc = "deleteLoad"
          /\ C11_Completes(h) =>
               IF LoadJournalsCaught(h)
               THEN /\ journals' = journals
                    /\ lastAlert' = (IF tasks[h].pc = "deleteLoad" THEN "Deleted"
                                     ELSE "Failed to load journals")
               ELSE C11_ListIsStorage]_vars

C11_Witness ==
  /\ AppRender = "Home" /\ lastAlert = "Journal updated successfully"
  /\ \A h \in HomeTasks : tasks[h].pc = "idle"
  /\ Len(journals) = 2
  /\ journals \in SelectJournals(routeUserId)

\* the alerts of the catch blocks of the journal screen
C12_JournalAlerts ==
  {"An unexpected error occurred", "Could not delete journal", "Failed to load journals"}

\* a storage call of handleAuth fails in this step
C12_AuthReturns ==
  HandleAuthCaught(AuthTask) =>
    /\ lastAlert' = GenericAuthError
    /\ UNCHANGED <<navVars, email, password, isLogin>>
    /\ authLoading' = FALSE

\* a storage call of a save, of a delete or of the re-fetch fails in this step
C12_JournalReturns(h) ==
  (SaveCaught(h) \/ DeleteCaught(h) \/ LoadJournalsCaught(h)) =>
    /\ tasks[h].pc # "deleteLoad" => lastAlert' \in C12_JournalAlerts
    /\ UNCHANGED <<navVars, image, description, category, editingId, journals>>

\* C12 as stated: whenever a storage call of login, registration, save, delete or the
\* re-fetch that follows them fails, an error alert is raised, nothing navigates, and the
\* mode, email and password of the authentication screen, its loading flag, the form of
\* the journal screen (image, description, category, editingId) and the list are what
\* they were before the action.
C12_FailureRestoresState ==
  [][C12_AuthReturns /\ \A h \in HomeTasks : C12_JournalReturns(h)]_vars

\* the handlers of the slots T that are awaiting an executeSql
C13_Outstanding(T) == {t \in T : tasks[t].call = "exec"}

C13_AuthSerial == Cardinality(C13_Outstanding(AuthTasks)) <= 1

C13_JournalSerial == Cardinality(C13_Outstanding(HomeTasks)) <= 1

\* C13 as stated: within the authentication screen and within the journal screen there
\* are never two handlers awaiting storage at the same time, so a press of Save, Delete or
\* Login / Register while an earlier action is pending starts nothing.
C13_NoOverlappingOperations == C13_AuthSerial /\ C13_JournalSerial

C14_UniqueEmails == \A u, v \in usersTable : u.email = v.email => u = v

\* a step that adds to users adds one row, whose email no row had
C14_InsertsFreshEmail ==
  usersTable' # usersTable =>
    \E a \in AuthTasks :
      /\ tasks[a].pc = "insert"
      /\ \A u \in usersTable : u.email # tasks[a].email
      /\ usersTable' = usersTable \cup {[id |-> nextUserId, email |-> tasks[a].email,
                                         password |-> tasks[a].password]}

\* an attempt that passed the existence check and finds its email in users at its INSERT
\* ends with the error alert: no row, no navigation
C14_LateAttemptFails(a) ==
  (tasks[a].pc = "insert" /\ tasks'[a].pc # "insert"
   /\ \E u \in usersTable : u.email = tasks[a].email) =>
    /\ usersTable' = usersTable /\ nextUserId' = nextUserId
    /\ tasks'[a].pc = "idle"
    /\ lastAlert' = GenericAuthError
    /\ UNCHANGED navVars

\* a registration hands off the id of the one row of its email
C14_HandsOffOwnRow(a) ==
  (tasks[a].pc = "requery" /\ tasks'[a].pc = "idle" /\ ~HandleAuthCaught(a)) =>
    /\ currentScreen' = "Home"
    /\ \E u \in usersTable : u.email = tasks[a].email /\ u.id = routeUserId'

\* C14: users never holds two rows with one email, also when two registrations with the
\* same email both pass the existence check before either inserts: the first INSERT adds
\* the row and that attempt hands off its id, the other INSERT is refused and that
\* attempt ends with the error alert without a row and without navigating.
C14_EmailsStayUnique ==
  /\ []C14_UniqueEmails
  /\ [][/\ C14_InsertsFreshEmail
        /\ \A a \in AuthTasks : C14_LateAttemptFails(a) /\ C14_HandsOffOwnRow(a)]_vars

C14_Witness ==
  \E a, b \in AuthTasks :
    /\ tasks[a].pc = "requery" /\ tasks[b].pc = "insert"
    /\ tasks[a].email = tasks[b].email
    /\ \E u \in usersTable : u.email = tasks[b].email

\* C15: every request settling, a handleAuth that set isLoading clears it again whatever
\* its outcome (navigation, 'Invalid email or password', 'Email already exists', storage
\* error), and the isLoading of a mounted journal screen becomes false whether the
\* permission requests and the first load succeed or fail.
C15_LoadingClears ==
  /\ authLoading ~> ~authLoading
  /\ (currentScreen = "Home" /\ homeLoading) ~> ~homeLoading

C15_Witness ==
  /\ AppRender = "Home" /\ ~homeLoading /\ ~authLoading
  /\ lastAlert = "Failed to load journals"
  /\ tasks[HomeTask1].pc = "idle"

\* C16 as stated: whenever editingId is set, journals holds a row with that id, owned by
\* the session user, so a save in update mode always targets an existing row of that
\* user, whatever edits, deletes and saves came before.
C16_EditingIdIdentifiesRow ==
  editingId # 0 => \E r \in journalsTable : r.id = editingId /\ r.userId = routeUserId

\* the fetched list filtered by category c, as the screen would show it
C17_Shown(list, c) ==
  IF c = "All" THEN list ELSE SelectSeq(list, LAMBDA j : j.category = c)

\* a save captures the category that filters the list, and the row it writes carries it
C17_SavePersistsFilter(h) ==
  /\ (tasks[h].pc = "idle" /\ tasks'[h].pc \in {"update", "insert"}) =>
       /\ tasks'[h].category = category
       /\ filteredJournals = C17_Shown(journals, tasks'[h].category)
  /\ (tasks[h].pc \in {"update", "insert"} /\ tasks'[h].pc = "saveLoad") =>
       \A r \in journalsTable' \ journalsTable : r.category = tasks[h].category

\* Edit on an entry puts the entry's category in the form and filters the list by it
C17_EditSetsFilter ==
  (editingId' # 0 /\ editingId' # editingId) =>
    \E k \in 1..Len(filteredJournals) :
      /\ filteredJournals[k].id = editingId'
      /\ category' = filteredJournals[k].category
      /\ filteredJournals' = C17_Shown(journals, filteredJournals[k].category)

\* a save that went on to its re-fetch ends with the filter 'All' and the whole list shown
C17_FilterAllAfterSave(h) ==
  (tasks[h].pc = "saveLoad" /\ tasks'[h].pc = "idle") =>
    (category' = "All" /\ filteredJournals' = journals')

\* C17: the category of the form and the filter of the list are one value: a save persists
\* the category that filters the list at that moment, Edit on an entry sets the form's
\* category and the filter to the entry's category, and a save that reported success ends
\* with the filter 'All' and the whole fetched list shown.
C17_CategoryIsFilter ==
  [][/\ C17_EditSetsFilter
     /\ \A h \in HomeTasks : C17_SavePersistsFilter(h) /\ C17_FilterAllAfterSave(h)]_vars

C17_Witness ==
  /\ AppRender = "Home" /\ category = "All" /\ editingId = 0
  /\ \A h \in HomeTasks : tasks[h].pc = "idle"
  /\ \E r \in journalsTable : r.category = "All"
  /\ \E k \in 1..Len(journals) : journals[k].category # "All"
  /\ filteredJournals = journals

====
